---- MODULE Spec2Model ----
(***************************************************************************)
(* A model of gmail_search.py: the EmailCache (SQLite tables emails and    *)
(* date_ranges, the coverage algebra of DateRange, find_missing_ranges,    *)
(* store_emails, cleanup_old_data), the EmailSearchService.search loop,   *)
(* and the session pool of IMAPClient under concurrent fetch_emails calls. *)
(*                                                                         *)
(* Time is a bounded range of integer instants 0..MaxTime.  A DateTime is  *)
(* persisted as ISO-8601 TEXT: isoformat writes the wall-clock fields,     *)
(* fixed-width, zero-padded, most significant first, and then the UTC      *)
(* offset; SQLite compares TEXT bytewise.  The model keeps two wall-clock  *)
(* fields (<<major, minor>>, minor < FieldRadix) and the offset, and       *)
(* compares the three lexicographically, as SQLite does.  The ranges are   *)
(* built from pendulum.now("UTC") and have offset 0; the date of a record  *)
(* keeps the offset of its Date header.                                    *)
(***************************************************************************)
EXTENDS Integers, Sequences, FiniteSets, TLC

----------------------------------------------------------------------------
(* Bounds of the model.                                                    *)

MaxTime == 3

FieldRadix == 2

(* IMAPClient(max_workers): the sessions _init_pool tries to open. *)
max_workers == 2

Times == 0..MaxTime

Max(a, b) == IF a >= b THEN a ELSE b

Min(a, b) == IF a <= b THEN a ELSE b

----------------------------------------------------------------------------
(* ISO text of a DateTime, and SQLite's TEXT comparison.                   *)

(* The UTC offsets a Date header can carry ("+00:00" and "+01:00"; their
   TEXT order is their numeric order). *)
UtcOffsets == {0, 1}

(* A DateTime with an offset: the instant it denotes and its UTC offset. *)
DateTime(t, o) == [instant |-> t, utcoffset |-> o]

(* The wall clock of the DateTime, then its offset. *)
isoformat_tz(t, o) == <<(t + o) \div FieldRadix, (t + o) % FieldRadix, o>>

(* isoformat of a UTC DateTime, given by its instant. *)
isoformat(t) == isoformat_tz(t, 0)

(* pendulum.parse: the instant the text denotes. *)
parse(s) == s[1] * FieldRadix + s[2] - s[3]

parse_tz(s) == DateTime(parse(s), s[3])

TextLess(a, b) ==
    \/ a[1] < b[1]
    \/ a[1] = b[1] /\ a[2] < b[2]
    \/ a[1] = b[1] /\ a[2] = b[2] /\ a[3] < b[3]

----------------------------------------------------------------------------
(* DateRange: a closed range of instants.                                  *)

DateRange(s, e) == [start |-> s, end |-> e]

DateRanges == {DateRange(s, e) : s \in Times, e \in Times}

Intervals == {r \in DateRanges : r.start <= r.end}

overlaps_strict(a, b) == a.start < b.end /\ a.end > b.start

overlaps(a, b) == a.start <= b.end /\ a.end >= b.start

merge_keep_other_end(a, b) == DateRange(Min(a.start, b.start), b.end)

merge(a, b) == DateRange(Min(a.start, b.start), Max(a.end, b.end))

----------------------------------------------------------------------------
(* The date_ranges table: a sequence of rows in rowid order.               *)

RangeRow(r) == [start_date |-> isoformat(r.start), end_date |-> isoformat(r.end)]

RowRange(row) == DateRange(parse(row.start_date), parse(row.end_date))

(* ORDER BY start_date: rows ordered by the TEXT of start_date. *)
RECURSIVE InsertRowByStart(_, _)
InsertRowByStart(sorted, row) ==
    IF sorted = <<>> THEN <<row>>
    ELSE IF TextLess(row.start_date, Head(sorted).start_date)
         THEN <<row>> \o sorted
         ELSE <<Head(sorted)>> \o InsertRowByStart(Tail(sorted), row)

RECURSIVE OrderByStartDate(_)
OrderByStartDate(rows) ==
    IF rows = <<>> THEN <<>>
    ELSE InsertRowByStart(OrderByStartDate(SubSeq(rows, 1, Len(rows) - 1)),
                          rows[Len(rows)])

get_cached_ranges(rows) ==
    LET ordered == OrderByStartDate(rows)
    IN  [i \in 1..Len(ordered) |-> RowRange(ordered[i])]

----------------------------------------------------------------------------
(* find_missing_ranges: the cursor walk over the cached ranges.            *)

RECURSIVE MissingWalk_no_advance(_, _, _, _)
MissingWalk_no_advance(cached, i, current, missing) ==
    IF i > Len(cached) THEN [current |-> current, missing |-> missing]
    ELSE MissingWalk_no_advance(cached, i + 1, current,
                     IF current < cached[i].start
                     THEN Append(missing, DateRange(current, cached[i].start))
                     ELSE missing)

RECURSIVE MissingWalk(_, _, _, _)
MissingWalk(cached, i, current, missing) ==
    IF i > Len(cached) THEN [current |-> current, missing |-> missing]
    ELSE MissingWalk(cached, i + 1, Max(current, cached[i].end),
                     IF current < cached[i].start
                     THEN Append(missing, DateRange(current, cached[i].start))
                     ELSE missing)

find_missing_ranges(rows, target_range) ==
    LET cached_ranges == get_cached_ranges(rows)
    IN  IF cached_ranges = <<>> THEN <<target_range>>
        ELSE LET w == MissingWalk(cached_ranges, 1, target_range.start, <<>>)
             IN  IF w.current < target_range.end
                 THEN Append(w.missing, DateRange(w.current, target_range.end))
                 ELSE w.missing

----------------------------------------------------------------------------
(* _update_date_ranges: append, stable sort by start, merge, rewrite.      *)

RECURSIVE InsertRangeByStart(_, _)
InsertRangeByStart(sorted, r) ==
    IF sorted = <<>> THEN <<r>>
    ELSE IF r.start < Head(sorted).start
         THEN <<r>> \o sorted
         ELSE <<Head(sorted)>> \o InsertRangeByStart(Tail(sorted), r)

RECURSIVE SortByStart(_)
SortByStart(ranges) ==
    IF ranges = <<>> THEN <<>>
    ELSE InsertRangeByStart(SortByStart(SubSeq(ranges, 1, Len(ranges) - 1)),
                            ranges[Len(ranges)])

RECURSIVE MergeScan_drops_current(_, _, _, _)
MergeScan_drops_current(ranges, i, current, merged) ==
    IF i > Len(ranges) THEN Append(merged, current)
    ELSE IF overlaps(current, ranges[i])
         THEN MergeScan_drops_current(ranges, i + 1, merge(current, ranges[i]),
                                      merged)
         ELSE MergeScan_drops_current(ranges, i + 1, ranges[i], merged)

RECURSIVE MergeScan(_, _, _, _)
MergeScan(ranges, i, current, merged) ==
    IF i > Len(ranges) THEN Append(merged, current)
    ELSE IF overlaps(current, ranges[i])
         THEN MergeScan(ranges, i + 1, merge(current, ranges[i]), merged)
         ELSE MergeScan(ranges, i + 1, ranges[i], Append(merged, current))

MergedRanges(rows, new_range) ==
    LET ranges == SortByStart(Append(get_cached_ranges(rows), new_range))
    IN  MergeScan(ranges, 2, ranges[1], <<>>)

RowsOf(ranges) == [i \in 1..Len(ranges) |-> RangeRow(ranges[i])]

update_date_ranges_no_delete(rows, new_range) ==
    rows \o RowsOf(MergedRanges(rows, new_range))

(* DELETE FROM date_ranges, then INSERT the merged ranges. *)
update_date_ranges(rows, new_range) == RowsOf(MergedRanges(rows, new_range))

----------------------------------------------------------------------------
(* The emails table: a sequence of rows in rowid order, message_id unique. *)

EmailMetadata(m, f, d) == [message_id |-> m, from_address |-> f, date |-> d]

EmailRow(e) ==
    [message_id |-> e.message_id, from_address |-> e.from_address,
     date |-> isoformat_tz(e.date.instant, e.date.utcoffset)]

(* INSERT OR REPLACE: the row with the same key is deleted, the new row is
   appended with a fresh rowid. *)
InsertOrReplace(table, row) ==
    Append(SelectSeq(table, LAMBDA x : x.message_id # row.message_id), row)

RECURSIVE Upsert(_, _)
Upsert(table, batch) ==
    IF batch = <<>> THEN table
    ELSE Upsert(InsertOrReplace(table, EmailRow(Head(batch))), Tail(batch))

----------------------------------------------------------------------------
(* store_emails and cleanup_old_data as whole units of work.               *)

store_emails(d, batch, date_range) ==
    IF batch = <<>> THEN d
    ELSE [emails |-> Upsert(d.emails, batch),
          date_ranges |-> update_date_ranges(d.date_ranges, date_range)]

(* The three statements of cleanup_old_data, on TEXT dates. *)
DeleteOldEmails(emails, c) == SelectSeq(emails, LAMBDA x : ~TextLess(x.date, c))

RaiseStarts(rows, c) ==
    [i \in 1..Len(rows) |->
        IF TextLess(rows[i].start_date, c)
        THEN [rows[i] EXCEPT !.start_date = c]
        ELSE rows[i]]

DeleteOldRanges(rows, c) == SelectSeq(rows, LAMBDA x : ~TextLess(x.end_date, c))

cleanup_old_data(d, cutoff_date) ==
    LET c == isoformat(cutoff_date)
    IN  [emails |-> DeleteOldEmails(d.emails, c),
         date_ranges |-> DeleteOldRanges(RaiseStarts(d.date_ranges, c), c)]

----------------------------------------------------------------------------
(* State.                                                                  *)

VARIABLES
    db,      \* the committed SQLite state: [emails, date_ranges]
    last,    \* the last cache call: its name, arguments, the state before it
             \* and what it returned
    lock,    \* EmailCache._lock: the thread holding it, or NoThread
    pc,      \* per thread: where it stands in a cache method
    call,    \* per thread: the method it runs and its arguments
    txn,     \* per thread: the uncommitted state of its connection
    merged,  \* per thread: the local list merged of _update_date_ranges
    base,    \* per thread: the committed state when it took the lock
    ret,     \* per thread: how its last call ended (and at which statement
             \* it raised), and what a read returned
    clock,   \* the wall clock, pendulum.now("UTC")
    pool,    \* IMAPClient.connection_pool: the queue of idle sessions
    made,    \* how many sessions _create_connection has opened
    svc,     \* the EmailSearchService.search call: where it stands, its
             \* arguments and locals, the gap attempts so far, its result
    fetch    \* per caller of IMAPClient.fetch_emails: where it stands, its
             \* local conn, and how its checkout and the call ended

vars == <<db, last, lock, pc, call, txn, merged, base, ret, clock, pool, made, svc,
          fetch>>

svcVars == <<clock, pool, made, svc, fetch>>

txnVars == <<lock, pc, call, txn, merged, base, ret>>

EmptyDb == [emails |-> <<>>, date_ranges |-> <<>>]

NoRange == DateRange(0, 0)

Call(op, batch, range, cutoff, pre, out) ==
    [op |-> op, batch |-> batch, range |-> range, cutoff |-> cutoff,
     pre |-> pre, out |-> out]

(* The records a fetch can hand to store_emails: two messages with UTC
   dates, and the first message again, read with another sender and a date
   that carries an offset. *)
Mail ==
    {EmailMetadata("m1", <<"a", "b">>, DateTime(1, 0)),
     EmailMetadata("m2", <<"b", "c">>, DateTime(MaxTime - 1, 0)),
     EmailMetadata("m1", <<"c", "a">>, DateTime(MaxTime - 1, 1))}

(* The batches handed to store_emails in Spec: none, or either reading of
   the first message. *)
Batches == {<<>>} \cup {<<e>> : e \in {x \in Mail : x.message_id = "m1"}}

----------------------------------------------------------------------------
(* Spec: the EmailCache used through its public methods, one call at a     *)
(* time, starting from the empty database _init_db creates.                *)

Threads == {"t1", "t2"}

NoThread == "none"

NoCall == [op |-> "none", batch |-> <<>>, range |-> NoRange, cutoff |-> 0]

NoRet == [status |-> "none", at |-> "none", seen |-> <<>>]

TxnIdle ==
    /\ lock = NoThread
    /\ pc = [t \in Threads |-> "idle"]
    /\ call = [t \in Threads |-> NoCall]
    /\ txn = [t \in Threads |-> EmptyDb]
    /\ merged = [t \in Threads |-> <<>>]
    /\ base = [t \in Threads |-> EmptyDb]
    /\ ret = [t \in Threads |-> NoRet]

NoSearch ==
    [pc |-> "idle", pattern |-> <<>>, days_back |-> <<>>, target |-> NoRange,
     gaps |-> <<>>,
     i |-> 0, attempts |-> <<>>, pre |-> EmptyDb, result |-> <<>>]

(* The threads that call fetch_emails on the one client. *)
Callers == {"c1", "c2", "c3"}

NoFetch ==
    [pc |-> "idle", conn |-> 0, idle_seen |-> 0, created |-> "no", got |-> 0,
     releases |-> 0, status |-> "none"]

SvcIdle ==
    /\ clock = 0
    /\ pool = <<>>
    /\ made = 0
    /\ svc = NoSearch
    /\ fetch = [c \in Callers |-> NoFetch]

Init ==
    /\ db = EmptyDb
    /\ last = Call("init", <<>>, NoRange, 0, EmptyDb, <<>>)
    /\ TxnIdle
    /\ SvcIdle

StoreEmails(batch, date_range) ==
    /\ db' = store_emails(db, batch, date_range)
    /\ last' = Call("store", batch, date_range, 0, db, <<>>)
    /\ UNCHANGED <<txnVars, svcVars>>

CleanupOldData(cutoff_date) ==
    /\ db' = cleanup_old_data(db, cutoff_date)
    /\ last' = Call("cleanup", <<>>, NoRange, cutoff_date, db, <<>>)
    /\ UNCHANGED <<txnVars, svcVars>>

FindMissingRanges(target_range) ==
    /\ db' = db
    /\ last' = Call("find", <<>>, target_range, 0, db,
                    find_missing_ranges(db.date_ranges, target_range))
    /\ UNCHANGED <<txnVars, svcVars>>

Next ==
    \/ \E batch \in Batches, r \in Intervals : StoreEmails(batch, r)
    \/ \E c \in Times : CleanupOldData(c)
    \/ \E t \in Intervals : FindMissingRanges(t)

Spec == Init /\ [][Next]_vars

----------------------------------------------------------------------------
(* SpecTxn: threads call store_emails, cleanup_old_data and                *)
(* get_cached_ranges on one EmailCache.  Each statement of a write method  *)
(* is a step.  A connection's writes stay in its transaction (txn) until   *)
(* commit; every other connection reads the committed state (db).          *)

TxnRanges == {DateRange(0, 1), DateRange(1, 2), DateRange(MaxTime, MaxTime)}

TxnBatches == {<<>>, <<EmailMetadata("m1", <<"a", "b">>, DateTime(1, 0))>>}

TxnCutoffs == {1, MaxTime}

InTxn == {"upsert", "read", "delete", "insert", "commit",
          "c_emails", "c_update", "c_delete"}

(* BEGIN TRANSACTION, then executemany(INSERT OR REPLACE ...): the rows go
   to the connection's transaction, the committed state is untouched. *)
BeginUpsert_autocommit(d, batch) ==
    [db |-> [d EXCEPT !.emails = Upsert(d.emails, batch)],
     txn |-> [d EXCEPT !.emails = Upsert(d.emails, batch)]]

BeginUpsert(d, batch) ==
    [db |-> d, txn |-> [d EXCEPT !.emails = Upsert(d.emails, batch)]]

(* conn.rollback(): the committed state stays, the transaction is dropped. *)
Rollback_keeps_writes(committed, uncommitted) == uncommitted

Rollback(committed, uncommitted) == committed

(* conn.commit(): the transaction becomes the committed state. *)
Commit(committed, uncommitted) == uncommitted

StoreCall(batch, date_range) ==
    [op |-> "store", batch |-> batch, range |-> date_range, cutoff |-> 0]

CleanupCall(cutoff_date) ==
    [op |-> "cleanup", batch |-> <<>>, range |-> NoRange, cutoff |-> cutoff_date]

(* The method ends: its locals and its connection go away. *)
Ended(t, status, at) ==
    /\ pc' = [pc EXCEPT ![t] = "idle"]
    /\ call' = [call EXCEPT ![t] = NoCall]
    /\ txn' = [txn EXCEPT ![t] = EmptyDb]
    /\ merged' = [merged EXCEPT ![t] = <<>>]
    /\ base' = [base EXCEPT ![t] = EmptyDb]
    /\ ret' = [ret EXCEPT ![t] = [status |-> status, at |-> at, seen |-> <<>>]]

(* store_emails, lines 141-146: an empty list returns at once. *)
CallStoreEmails(t, batch, date_range) ==
    /\ pc[t] = "idle"
    /\ IF batch = <<>>
       THEN /\ ret' = [ret EXCEPT ![t] = [status |-> "returned", at |-> "empty",
                                          seen |-> <<>>]]
            /\ UNCHANGED <<pc, call>>
       ELSE /\ pc' = [pc EXCEPT ![t] = "lock"]
            /\ call' = [call EXCEPT ![t] = StoreCall(batch, date_range)]
            /\ ret' = [ret EXCEPT ![t] = NoRet]
    /\ UNCHANGED <<db, last, lock, txn, merged, base, svcVars>>

CallCleanupOldData(t, cutoff_date) ==
    /\ pc[t] = "idle"
    /\ call' = [call EXCEPT ![t] = CleanupCall(cutoff_date)]
    /\ pc' = [pc EXCEPT ![t] = "lock"]
    /\ ret' = [ret EXCEPT ![t] = NoRet]
    /\ UNCHANGED <<db, last, lock, txn, merged, base, svcVars>>

(* threading.Lock: acquire succeeds only when no thread holds the lock. *)
LockAvailable_always(l) == TRUE

LockAvailable(l) == l = NoThread

(* with self._lock: *)
AcquireLock(t) ==
    /\ pc[t] = "lock"
    /\ LockAvailable(lock)
    /\ lock' = t
    /\ pc' = [pc EXCEPT ![t] = IF call[t].op = "store" THEN "upsert"
                               ELSE "c_emails"]
    /\ txn' = [txn EXCEPT ![t] = db]
    /\ base' = [base EXCEPT ![t] = db]
    /\ UNCHANGED <<db, last, call, merged, ret, svcVars>>

StoreUpsert(t) ==
    /\ pc[t] = "upsert"
    /\ LET b == BeginUpsert(db, call[t].batch)
       IN  /\ db' = b.db
           /\ txn' = [txn EXCEPT ![t] = b.txn]
    /\ pc' = [pc EXCEPT ![t] = "read"]
    /\ UNCHANGED <<last, lock, call, merged, base, ret, svcVars>>

(* _update_date_ranges reads through get_cached_ranges, which opens its own
   connection: it sees the committed rows. *)
StoreReadRanges(t) ==
    /\ pc[t] = "read"
    /\ merged' = [merged EXCEPT ![t] = MergedRanges(db.date_ranges, call[t].range)]
    /\ pc' = [pc EXCEPT ![t] = "delete"]
    /\ UNCHANGED <<db, last, lock, call, txn, base, ret, svcVars>>

StoreDeleteRanges(t) ==
    /\ pc[t] = "delete"
    /\ txn' = [txn EXCEPT ![t].date_ranges = <<>>]
    /\ pc' = [pc EXCEPT ![t] = "insert"]
    /\ UNCHANGED <<db, last, lock, call, merged, base, ret, svcVars>>

StoreInsertRanges(t) ==
    /\ pc[t] = "insert"
    /\ txn' = [txn EXCEPT ![t].date_ranges = RowsOf(merged[t])]
    /\ pc' = [pc EXCEPT ![t] = "commit"]
    /\ UNCHANGED <<db, last, lock, call, merged, base, ret, svcVars>>

CleanupEmails(t) ==
    /\ pc[t] = "c_emails"
    /\ txn' = [txn EXCEPT ![t] =
                 [db EXCEPT !.emails =
                     DeleteOldEmails(db.emails, isoformat(call[t].cutoff))]]
    /\ pc' = [pc EXCEPT ![t] = "c_update"]
    /\ UNCHANGED <<db, last, lock, call, merged, base, ret, svcVars>>

CleanupRaiseStarts(t) ==
    /\ pc[t] = "c_update"
    /\ txn' = [txn EXCEPT ![t].date_ranges =
                 RaiseStarts(txn[t].date_ranges, isoformat(call[t].cutoff))]
    /\ pc' = [pc EXCEPT ![t] = "c_delete"]
    /\ UNCHANGED <<db, last, lock, call, merged, base, ret, svcVars>>

CleanupDeleteRanges(t) ==
    /\ pc[t] = "c_delete"
    /\ txn' = [txn EXCEPT ![t].date_ranges =
                 DeleteOldRanges(txn[t].date_ranges, isoformat(call[t].cutoff))]
    /\ pc' = [pc EXCEPT ![t] = "commit"]
    /\ UNCHANGED <<db, last, lock, call, merged, base, ret, svcVars>>

(* conn.commit() (store_emails) or the connection's context manager
   (cleanup_old_data); the lock is released on the way out. *)
CommitTxn(t) ==
    /\ pc[t] = "commit"
    /\ db' = Commit(db, txn[t])
    /\ lock' = NoThread
    /\ Ended(t, "returned", "commit")
    /\ UNCHANGED <<last, svcVars>>

(* A statement or the commit raises: conn.rollback(), the exception leaves
   the method, the lock is released. *)
FailTxn(t) ==
    /\ pc[t] \in InTxn
    /\ db' = Rollback(db, txn[t])
    /\ lock' = NoThread
    /\ Ended(t, "raised", pc[t])
    /\ UNCHANGED <<last, svcVars>>

(* get_cached_ranges: one SELECT on a connection of its own, no lock. *)
ReadRanges(t) ==
    /\ pc[t] = "idle"
    /\ ret' = [ret EXCEPT ![t] = [status |-> "read", at |-> "none",
                                  seen |-> get_cached_ranges(db.date_ranges)]]
    /\ UNCHANGED <<db, last, lock, pc, call, txn, merged, base, svcVars>>

NextTxn ==
    \E t \in Threads :
        \/ \E batch \in TxnBatches, r \in TxnRanges : CallStoreEmails(t, batch, r)
        \/ \E c \in TxnCutoffs : CallCleanupOldData(t, c)
        \/ AcquireLock(t)
        \/ StoreUpsert(t)
        \/ StoreReadRanges(t)
        \/ StoreDeleteRanges(t)
        \/ StoreInsertRanges(t)
        \/ CleanupEmails(t)
        \/ CleanupRaiseStarts(t)
        \/ CleanupDeleteRanges(t)
        \/ CommitTxn(t)
        \/ FailTxn(t)
        \/ ReadRanges(t)

SpecTxn == Init /\ [][NextTxn]_vars

----------------------------------------------------------------------------
(* search_emails: from_address REGEXP pattern AND date >= start AND        *)
(* date <= end, the dates compared as TEXT.  A pattern is a literal or the *)
(* unterminated group "(", which re does not compile; re.search of a       *)
(* literal finds it anywhere in the text.                                  *)

Patterns == {<<"a">>, <<"c">>, <<"(">>}

Compiles(pattern) == \A k \in 1..Len(pattern) : pattern[k] # "("

re_search(pattern, text) ==
    \E k \in 1..(Len(text) - Len(pattern) + 1) :
        SubSeq(text, k, k + Len(pattern) - 1) = pattern

InWindowText(row, date_range) ==
    /\ ~TextLess(row.date, isoformat(date_range.start))
    /\ ~TextLess(isoformat(date_range.end), row.date)

RowEmail(row) == EmailMetadata(row.message_id, row.from_address, parse_tz(row.date))

search_emails(emails, pattern, date_range) ==
    LET rows == SelectSeq(emails, LAMBDA x : /\ re_search(pattern, x.from_address)
                                             /\ InWindowText(x, date_range))
    IN  [k \in 1..Len(rows) |-> RowEmail(rows[k])]

(* sorted(results, key=lambda x: x.date, reverse=True): stable. *)
RECURSIVE InsertByDateDesc(_, _)
InsertByDateDesc(sorted, e) ==
    IF sorted = <<>> THEN <<e>>
    ELSE IF e.date.instant > Head(sorted).date.instant
         THEN <<e>> \o sorted
         ELSE <<Head(sorted)>> \o InsertByDateDesc(Tail(sorted), e)

RECURSIVE SortedNewestFirst(_)
SortedNewestFirst(results) ==
    IF results = <<>> THEN <<>>
    ELSE InsertByDateDesc(SortedNewestFirst(SubSeq(results, 1, Len(results) - 1)),
                          results[Len(results)])

----------------------------------------------------------------------------
(* SpecSearch: EmailSearchService.search, called again and again on one    *)
(* service, one loop iteration per step.  The clock is read once, at the   *)
(* start of search, so it ticks between searches.                          *)

YearDays == 2

MaxDaysBack == 3

(* _init_pool: max_workers attempts, each of which may fail. *)
InitialPools == {[k \in 1..n |-> k] : n \in 0..max_workers}

InitSearch ==
    /\ db = EmptyDb
    /\ last = Call("init", <<>>, NoRange, 0, EmptyDb, <<>>)
    /\ TxnIdle
    /\ clock = 1
    /\ pool \in InitialPools
    /\ made = Len(pool)
    /\ svc = NoSearch
    /\ fetch = [c \in Callers |-> NoFetch]

Tick ==
    /\ svc.pc \in {"idle", "done", "raised"}
    /\ clock < MaxTime
    /\ clock' = clock + 1
    /\ UNCHANGED <<db, last, txnVars, fetch, pool, made, svc>>

(* days_back: Optional[int], <<>> for None and <<n>> for the integer n. *)
DaysBack == {<<>>} \cup {<<n>> : n \in 0..MaxDaysBack}

(* `if days_back`: None and 0 are both falsy. *)
Truthy(days_back) == days_back # <<>> /\ days_back[1] # 0

(* Lines 478-484: the window ends now and starts days_back days, or one
   year, before. *)
TargetRange(now, days_back) ==
    DateRange(now - (IF Truthy(days_back) THEN days_back[1] ELSE YearDays), now)

SearchCall(pattern, days_back) ==
    /\ svc.pc \in {"idle", "done", "raised"}
    /\ TargetRange(clock, days_back).start >= 0
    /\ LET target_range == TargetRange(clock, days_back)
           missing_ranges == find_missing_ranges(db.date_ranges, target_range)
       IN  svc' = [pc |-> IF missing_ranges = <<>> THEN "query" ELSE "loop",
                   pattern |-> pattern, days_back |-> days_back,
                   target |-> target_range,
                   gaps |-> missing_ranges, i |-> 1, attempts |-> <<>>,
                   pre |-> db, result |-> <<>>]
    /\ UNCHANGED <<db, last, txnVars, fetch, clock, pool, made>>

FetchFailed == {"no_session", "fetch_raised"}

(* Lines 500-506: what one iteration leaves in the database.  The store is
   reached only with a non-empty list of fetched records; a store that
   raises has rolled back. *)
GapEffect_marks_failed(d, outcome, batch, date_range) ==
    IF outcome = "stored" THEN store_emails(d, batch, date_range)
    ELSE IF outcome \in FetchFailed
         THEN [d EXCEPT !.date_ranges = update_date_ranges(d.date_ranges, date_range)]
         ELSE d

GapEffect_covers_empty(d, outcome, batch, date_range) ==
    IF outcome = "stored" THEN store_emails(d, batch, date_range)
    ELSE IF outcome = "empty"
         THEN [d EXCEPT !.date_ranges = update_date_ranges(d.date_ranges, date_range)]
         ELSE d

GapEffect(d, outcome, batch, date_range) ==
    IF outcome = "stored" THEN store_emails(d, batch, date_range) ELSE d

(* The except clause at line 505 catches, prints and goes on with the
   next range. *)
AfterGap_abort(outcome, i, n) ==
    IF outcome \in FetchFailed THEN "raised"
    ELSE IF i < n THEN "loop" ELSE "query"

AfterGap(outcome, i, n) == IF i < n THEN "loop" ELSE "query"

Attempted(outcome, batch) ==
    svc' = [svc EXCEPT
              !.pc = AfterGap(outcome, svc.i, Len(svc.gaps)),
              !.i = svc.i + 1,
              !.pre = db,
              !.attempts = Append(svc.attempts,
                                  [gap |-> svc.gaps[svc.i], outcome |-> outcome,
                                   batch |-> batch])]

(* _get_connection finds the pool empty (the get times out) and
   _create_connection returns None: fetch_emails raises RuntimeError. *)
GapNoSession ==
    /\ svc.pc = "loop"
    /\ pool = <<>>
    /\ db' = GapEffect(db, "no_session", <<>>, svc.gaps[svc.i])
    /\ Attempted("no_session", <<>>)
    /\ UNCHANGED <<last, txnVars, fetch, clock, pool, made>>

(* fetch_emails with a session: taken from the pool, or created when the
   pool is empty; whatever happens, the finally clause puts it back. *)
GapWithSession(outcome, batch) ==
    /\ svc.pc = "loop"
    /\ IF pool # <<>>
       THEN /\ pool' = Append(Tail(pool), Head(pool))
            /\ made' = made
       ELSE /\ pool' = <<made + 1>>
            /\ made' = made + 1
    /\ db' = GapEffect(db, outcome, batch, svc.gaps[svc.i])
    /\ Attempted(outcome, batch)
    /\ UNCHANGED <<last, txnVars, fetch, clock>>

(* Lines 509-516.  REGEXP calls re.search for the rows SQLite evaluates it
   on; a pattern that does not compile raises there.  The rows inside the
   window are evaluated; whether a row outside it is depends on the query
   plan. *)
QueryReturns ==
    /\ svc.pc = "query"
    /\ \/ Compiles(svc.pattern)
       \/ \A k \in 1..Len(db.emails) : ~InWindowText(db.emails[k], svc.target)
    /\ svc' = [svc EXCEPT
                 !.pc = "done",
                 !.result = IF Compiles(svc.pattern)
                            THEN SortedNewestFirst(
                                   search_emails(db.emails, svc.pattern, svc.target))
                            ELSE <<>>]
    /\ UNCHANGED <<db, last, txnVars, fetch, clock, pool, made>>

QueryRaises ==
    /\ svc.pc = "query"
    /\ ~Compiles(svc.pattern)
    /\ db.emails # <<>>
    /\ svc' = [svc EXCEPT !.pc = "raised"]
    /\ UNCHANGED <<db, last, txnVars, fetch, clock, pool, made>>

NextSearch ==
    \/ Tick
    \/ \E pattern \in Patterns, days_back \in DaysBack :
           SearchCall(pattern, days_back)
    \/ GapNoSession
    \/ \E outcome \in {"fetch_raised", "empty"} : GapWithSession(outcome, <<>>)
    \/ \E outcome \in {"stored", "store_raised"}, e \in Mail :
           GapWithSession(outcome, <<e>>)
    \/ QueryReturns
    \/ QueryRaises

SpecSearch == InitSearch /\ [][NextSearch]_vars

----------------------------------------------------------------------------
(* SpecPool: callers of IMAPClient.fetch_emails on one client, each on its *)
(* own thread.  connection_pool is queue.Queue(): get and put are atomic,  *)
(* get(timeout=5) raises Empty when the queue stayed empty for the whole   *)
(* timeout, put raises Full only when the queue has a maxsize and is full. *)

(* Queue() at line 277: no maxsize argument, which is maxsize 0. *)
maxsize == 0

Full(queue) == maxsize > 0 /\ Len(queue) >= maxsize

Queue_get_peek(queue) == [item |-> Head(queue), queue |-> queue]

Queue_get(queue) == [item |-> Head(queue), queue |-> Tail(queue)]

GetTimesOut_never(queue) == FALSE

GetTimesOut(queue) == queue = <<>>

(* _release_connection: put the session back; were the put to raise Full,
   the session would be logged out and dropped. *)
release_connection(queue, conn) ==
    IF Full(queue) THEN queue ELSE Append(queue, conn)

(* The outcomes of fetch_emails once it has a session: the server search
   found nothing (line 349), the headers were fetched (line 414), or
   conn.search / conn.fetch raised. *)
FetchOutcomes == {"empty", "returned", "search_raised", "fetch_raised"}

(* try / finally at lines 335-417: the release runs for every outcome. *)
ReleasedAtEnd_only_on_return(outcome) == outcome \in {"empty", "returned"}

ReleasedAtEnd(outcome) == TRUE

InitPool ==
    /\ db = EmptyDb
    /\ last = Call("init", <<>>, NoRange, 0, EmptyDb, <<>>)
    /\ TxnIdle
    /\ clock = 0
    /\ svc = NoSearch
    /\ pool \in InitialPools
    /\ made = Len(pool)
    /\ fetch = [c \in Callers |-> NoFetch]

(* fetch_emails is called: line 331 starts the checkout. *)
FetchEmails(c) ==
    /\ fetch[c].pc = "idle"
    /\ fetch' = [fetch EXCEPT ![c] = [NoFetch EXCEPT !.pc = "get"]]
    /\ UNCHANGED <<db, last, txnVars, clock, svc, pool, made>>

(* _get_connection, line 300: an idle session is taken from the queue. *)
GetFromPool(c) ==
    /\ fetch[c].pc = "get"
    /\ pool # <<>>
    /\ LET g == Queue_get(pool)
       IN  /\ pool' = g.queue
           /\ fetch' = [fetch EXCEPT ![c].pc = "exchange", ![c].conn = g.item,
                                     ![c].got = g.item,
                                     ![c].idle_seen = Len(pool)]
    /\ UNCHANGED <<db, last, txnVars, clock, svc, made>>

(* Lines 301-302: the get timed out and _create_connection opened a fresh
   session. *)
GetCreates(c) ==
    /\ fetch[c].pc = "get"
    /\ GetTimesOut(pool)
    /\ made' = made + 1
    /\ fetch' = [fetch EXCEPT ![c].pc = "exchange", ![c].conn = made + 1,
                              ![c].got = made + 1, ![c].created = "yes",
                              ![c].idle_seen = Len(pool)]
    /\ UNCHANGED <<db, last, txnVars, clock, svc, pool>>

(* Lines 294-295 and 332-333: the get timed out, _create_connection
   returned None, and fetch_emails raises RuntimeError. *)
GetFails(c) ==
    /\ fetch[c].pc = "get"
    /\ GetTimesOut(pool)
    /\ fetch' = [fetch EXCEPT ![c].pc = "idle", ![c].created = "failed",
                              ![c].status = "raised",
                              ![c].idle_seen = Len(pool)]
    /\ UNCHANGED <<db, last, txnVars, clock, svc, pool, made>>

(* The exchange with the server ends, one way or another, and the finally
   clause releases the session; the locals of the call are gone. *)
FetchEnd(c, outcome) ==
    /\ fetch[c].pc = "exchange"
    /\ IF ReleasedAtEnd(outcome)
       THEN /\ pool' = release_connection(pool, fetch[c].conn)
            /\ fetch' = [fetch EXCEPT
                           ![c].pc = "idle", ![c].conn = 0,
                           ![c].idle_seen = 0, ![c].created = "no",
                           ![c].releases = fetch[c].releases + 1,
                           ![c].status = IF outcome \in {"empty", "returned"}
                                         THEN "returned" ELSE "raised"]
       ELSE /\ pool' = pool
            /\ fetch' = [fetch EXCEPT
                           ![c].pc = "idle", ![c].conn = 0,
                           ![c].idle_seen = 0, ![c].created = "no",
                           ![c].status = IF outcome \in {"empty", "returned"}
                                         THEN "returned" ELSE "raised"]
    /\ UNCHANGED <<db, last, txnVars, clock, svc, made>>

Checkout(c) == GetFromPool(c) \/ GetCreates(c) \/ GetFails(c)

NextPool ==
    \E c \in Callers :
        \/ FetchEmails(c)
        \/ GetFromPool(c)
        \/ GetCreates(c)
        \/ GetFails(c)
        \/ \E outcome \in FetchOutcomes : FetchEnd(c, outcome)

SpecPool == InitPool /\ [][NextPool]_vars

(* queue.get(timeout=5) returns within its timeout and _create_connection
   returns: a started checkout is resolved. *)
SpecPoolLive == SpecPool /\ \A c \in Callers : WF_vars(Checkout(c))

----------------------------------------------------------------------------
(* Instants.  A range [s, e] covers every real instant from s to e; the    *)
(* instants between two consecutive integer instants all behave alike, so  *)
(* the model takes one of them: instant 2t is the integer instant t, and   *)
(* instant 2t+1 lies strictly between t and t+1.                           *)

Instants == 0..(2 * MaxTime)

InRange(x, r) == 2 * r.start <= x /\ x <= 2 * r.end

Inside(x, r) == 2 * r.start < x /\ x < 2 * r.end

InstantsOf(r) == {x \in Instants : InRange(x, r)}

Covered(ranges, x) == \E i \in 1..Len(ranges) : InRange(x, ranges[i])

CoveredSet(ranges) == {x \in Instants : Covered(ranges, x)}

SharesInstant(a, b) == \E x \in Instants : InRange(x, a) /\ InRange(x, b)

(* The date_ranges rows in rowid order, as DateRanges. *)
TableRanges(rows) == [i \in 1..Len(rows) |-> RowRange(rows[i])]

Canonical(ranges) ==
    /\ \A i \in 1..Len(ranges) : ranges[i].start <= ranges[i].end
    /\ \A i, j \in 1..Len(ranges) :
           i < j => /\ ranges[i].start < ranges[j].start
                    /\ ~SharesInstant(ranges[i], ranges[j])

SetMin(S) == CHOOSE x \in S : \A y \in S : x <= y

SetMax(S) == CHOOSE x \in S : \A y \in S : x >= y

PreCover == TableRanges(last.pre.date_ranges)

Cover == TableRanges(db.date_ranges)

----------------------------------------------------------------------------
(* C1: after any sequence of store_emails and cleanup_old_data calls from
   the empty store, the persisted coverage rows are sorted ascending by
   start, every row has start <= end, and no two rows share an instant
   (touching rows have been merged). *)
C1_CanonicalCover == Canonical(Cover)

C1_Witness ==
    /\ last.op = "cleanup"
    /\ db.date_ranges # last.pre.date_ranges
    /\ Len(db.date_ranges) >= 2

(* C2: add(I) covers exactly what was covered before plus I: the ranges that
   overlap or touch I become one range from the least start to the greatest
   end, and the ranges that do not are kept as they were. *)
C2_AddIsUnion ==
    (last.op = "store" /\ last.batch # <<>>) =>
        LET I == last.range
            hit == {i \in 1..Len(PreCover) : SharesInstant(PreCover[i], I)}
            one == DateRange(
                     SetMin({I.start} \cup {PreCover[i].start : i \in hit}),
                     SetMax({I.end} \cup {PreCover[i].end : i \in hit}))
        IN  /\ CoveredSet(Cover) = CoveredSet(PreCover) \cup InstantsOf(I)
            /\ \E j \in 1..Len(Cover) : Cover[j] = one
            /\ \A i \in (1..Len(PreCover)) \ hit :
                   \E j \in 1..Len(Cover) : Cover[j] = PreCover[i]
            /\ Len(Cover) = Len(PreCover) - Cardinality(hit) + 1

C2_Witness ==
    /\ last.op = "store" /\ last.batch # <<>>
    /\ \E i \in 1..Len(PreCover) :
           /\ SharesInstant(PreCover[i], last.range)
           /\ PreCover[i].start < last.range.start
           /\ PreCover[i].end < last.range.end
    /\ \E i \in 1..Len(PreCover) : ~SharesInstant(PreCover[i], last.range)
    /\ Len(Cover) = Len(PreCover)

(* C3: every range find_missing_ranges returns for a target T lies within
   T. *)
C3_GapsWithinTarget ==
    last.op = "find" =>
        \A i \in 1..Len(last.out) :
            /\ last.out[i].start >= last.range.start
            /\ last.out[i].end <= last.range.end

(* C4: every instant of the target T that no cached range covers lies in a
   returned gap; with an empty cover the gaps are exactly <<T>>; a
   zero-length target at an uncovered instant is returned as the gap. *)
C4_UncoveredInstantsInGaps ==
    last.op = "find" =>
        /\ \A x \in InstantsOf(last.range) :
               ~Covered(PreCover, x) => Covered(last.out, x)
        /\ PreCover = <<>> => last.out = <<last.range>>
        /\ (last.range.start = last.range.end
              /\ ~Covered(PreCover, 2 * last.range.start))
           => last.out = <<last.range>>

(* C5 as stated: the target minus the returned gaps is exactly the covered
   part of the target, so no gap holds a covered instant. *)
C5_GapsExactComplement ==
    last.op = "find" =>
        {x \in InstantsOf(last.range) : ~Covered(last.out, x)}
            = {x \in InstantsOf(last.range) : Covered(PreCover, x)}

(* C5 amended: no instant strictly inside a returned gap is covered; only
   the two endpoints of a gap can be covered instants: a gap starts at the
   target's start or at the end of a cached range, and ends at the target's
   end or at the start of a cached range. *)
C5_GapInteriorsUncovered ==
    last.op = "find" =>
        \A i \in 1..Len(last.out) :
            LET g == last.out[i]
            IN  /\ \A x \in Instants : Inside(x, g) => ~Covered(PreCover, x)
                /\ \/ g.start = last.range.start
                   \/ \E k \in 1..Len(PreCover) : PreCover[k].end = g.start
                /\ \/ g.end = last.range.end
                   \/ \E k \in 1..Len(PreCover) : PreCover[k].start = g.end

C5_Witness ==
    /\ last.op = "find"
    /\ Len(last.out) = 2
    /\ \E k \in 1..Len(PreCover) :
           /\ PreCover[k].start < PreCover[k].end
           /\ last.out[1] = DateRange(last.range.start, PreCover[k].start)
           /\ last.out[2] = DateRange(PreCover[k].end, last.range.end)

(* C6 as stated: the returned gaps are ascending by start and no two of
   them share an instant. *)
C6_GapsSortedDisjoint ==
    last.op = "find" =>
        \A i, j \in 1..Len(last.out) :
            i < j => /\ last.out[i].start < last.out[j].start
                     /\ ~SharesInstant(last.out[i], last.out[j])

(* C6 amended: the returned gaps are strictly ascending by start, no gap is
   returned twice, and a gap ends no later than the next one starts; two
   gaps share an instant only as the end of one and the start of the next,
   and only where a zero-length cached range lies. *)
C6_GapsAscendingShareEndpointOnly ==
    last.op = "find" =>
        \A i, j \in 1..Len(last.out) :
            i < j =>
                /\ last.out[i].start < last.out[j].start
                /\ last.out[i].end <= last.out[j].start
                /\ last.out[i].end = last.out[j].start =>
                       /\ j = i + 1
                       /\ \E k \in 1..Len(PreCover) :
                              PreCover[k] = DateRange(last.out[i].end,
                                                      last.out[i].end)

C6_Witness ==
    /\ last.op = "find"
    /\ Len(last.out) >= 2
    /\ last.out[1].end = last.out[2].start
    /\ \E k \in 1..Len(PreCover) : PreCover[k].start < PreCover[k].end

----------------------------------------------------------------------------
(* C7: the committed state, which is all a reader can see, changes only at
   a commit; the commit of a store_emails call makes its records and its
   coverage visible in the same step (the whole unit applied to the state
   before it), so the upsert alone, the emptied date_ranges table and the
   coverage alone are never visible. *)
C7_UnitVisibleAtOnce ==
    [][db' # db =>
         \E t \in Threads :
             /\ pc[t] = "commit" /\ pc'[t] = "idle"
             /\ ret'[t].status = "returned"
             /\ db = base[t]
             /\ call[t].op = "store" =>
                    /\ db' = store_emails(db, call[t].batch, call[t].range)
                    /\ \A k \in 1..Len(call[t].batch) :
                           \E j \in 1..Len(db'.emails) :
                               db'.emails[j] = EmailRow(call[t].batch[k])
                    /\ InstantsOf(call[t].range)
                           \subseteq CoveredSet(TableRanges(db'.date_ranges))
             /\ call[t].op = "cleanup" =>
                    db' = cleanup_old_data(db, call[t].cutoff)]_vars

C7_Witness ==
    \E t, u \in Threads :
        /\ pc[t] = "insert"
        /\ txn[t].date_ranges = <<>>
        /\ txn[t].emails # db.emails
        /\ db.date_ranges # <<>>
        /\ ret[u].status = "read"
        /\ ret[u].seen = get_cached_ranges(db.date_ranges)

(* C8: when a statement of a store_emails call, or its commit, raises, the
   committed emails and date_ranges tables are what they were when the call
   took the lock. *)
C8_FailedUnitRolledBack ==
    [][\A t \in Threads :
           (pc[t] \in InTxn /\ call[t].op = "store"
              /\ pc'[t] = "idle" /\ ret'[t].status = "raised")
           => db' = base[t]]_vars

C8_Witness ==
    \E t \in Threads :
        /\ ret[t].status = "raised"
        /\ ret[t].at = "insert"
        /\ pc[t] = "idle"
        /\ db.date_ranges # <<>>
        /\ db.emails # <<>>

----------------------------------------------------------------------------
(* C9: a gap whose fetch failed (no session, or the exchange raised) leaves
   the emails and date_ranges tables as the iteration found them; coverage
   changes in an iteration only when its unit of work was stored. *)
C9_FailedFetchLeavesStores ==
    svc.attempts # <<>> =>
        LET a == svc.attempts[Len(svc.attempts)]
        IN  /\ a.outcome \in {"no_session", "fetch_raised"} => db = svc.pre
            /\ db.date_ranges # svc.pre.date_ranges => a.outcome = "stored"

C9_Witness ==
    /\ Len(svc.attempts) >= 2
    /\ svc.attempts[Len(svc.attempts) - 1].outcome = "stored"
    /\ svc.attempts[Len(svc.attempts)].outcome \in {"no_session", "fetch_raised"}
    /\ ~(InstantsOf(svc.attempts[Len(svc.attempts)].gap)
            \subseteq CoveredSet(TableRanges(db.date_ranges)))

(* C10: a failed gap does not end the search: the gaps computed for the
   target are attempted one after the other, all of them, whichever of them
   fail, and the search then returns the records of the local store that
   the query selects (sender matching the pattern, date TEXT within the
   TEXT of the window), each once, newest first. *)
QueriedRows ==
    {k \in 1..Len(db.emails) :
        /\ re_search(svc.pattern, db.emails[k].from_address)
        /\ InWindowText(db.emails[k], svc.target)}

C10_FailedGapDoesNotAbort ==
    /\ \A k \in 1..Len(svc.attempts) :
           k <= Len(svc.gaps) /\ svc.attempts[k].gap = svc.gaps[k]
    /\ svc.pc = "loop" => Len(svc.attempts) = svc.i - 1 /\ svc.i <= Len(svc.gaps)
    /\ svc.pc \in {"query", "done", "raised"} => Len(svc.attempts) = Len(svc.gaps)
    /\ svc.pc = "raised" => ~Compiles(svc.pattern)
    /\ (svc.pc = "done" /\ Compiles(svc.pattern)) =>
           /\ Len(svc.result) = Cardinality(QueriedRows)
           /\ \A k \in QueriedRows :
                  \E j \in 1..Len(svc.result) : svc.result[j] = RowEmail(db.emails[k])
           /\ \A j, k \in 1..Len(svc.result) :
                  j < k => svc.result[j].date.instant >= svc.result[k].date.instant

C10_Witness ==
    /\ svc.pc = "done"
    /\ Len(svc.gaps) >= 2
    /\ svc.attempts[1].outcome \in {"no_session", "fetch_raised"}
    /\ svc.attempts[2].outcome = "stored"
    /\ svc.result # <<>>

----------------------------------------------------------------------------
(* C11: a search whose pattern does not compile has raised, and it raised
   before anything else happened: no gap was attempted (so no session was
   taken and nothing fetched) and the database is what the call found. *)
C11_InvalidPatternRaisesBeforeFetch ==
    (svc.pc # "idle" /\ ~Compiles(svc.pattern)) =>
        /\ svc.pc = "raised"
        /\ svc.attempts = <<>>
        /\ db = svc.pre

(* C12: a search that returned normally had no gap whose storage
   transaction failed, and was not one in which every gap ended without a
   session. *)
C12_StructuralFailureSurfaced ==
    svc.pc = "done" =>
        /\ \A k \in 1..Len(svc.attempts) : svc.attempts[k].outcome # "store_raised"
        /\ svc.attempts # <<>> =>
               \E k \in 1..Len(svc.attempts) : svc.attempts[k].outcome # "no_session"

----------------------------------------------------------------------------
(* C13: the number of idle sessions in the pool never exceeds
   max_workers. *)
C13_PoolBounded == Len(pool) <= max_workers

(* C14: no session is twice in the pool, no session is the conn of two
   callers, and no session is both in the pool and the conn of a caller. *)
C14_SessionExclusive ==
    /\ \A i, j \in 1..Len(pool) : i # j => pool[i] # pool[j]
    /\ \A c, d \in Callers :
           (c # d /\ fetch[c].conn # 0) => fetch[c].conn # fetch[d].conn
    /\ \A c \in Callers :
           fetch[c].conn # 0 => \A i \in 1..Len(pool) : pool[i] # fetch[c].conn

C14_Witness ==
    \E c, d, e \in Callers :
        /\ c # d
        /\ fetch[c].pc = "exchange" /\ fetch[d].pc = "exchange"
        /\ fetch[e].releases = 1
        /\ pool # <<>>

(* C15: a fetch_emails call that obtained a session and has ended released
   it once and holds it no more, whether it returned or raised; a call in
   progress has released nothing; and every session ever opened is either
   idle in the pool or the conn of a call in progress. *)
C15_SessionReleasedOnce ==
    /\ \A c \in Callers :
           /\ (fetch[c].pc = "idle" /\ fetch[c].got # 0) =>
                  fetch[c].releases = 1 /\ fetch[c].conn = 0
           /\ fetch[c].pc # "idle" => fetch[c].releases = 0
    /\ \A s \in 1..made :
           \/ \E i \in 1..Len(pool) : pool[i] = s
           \/ \E c \in Callers : fetch[c].pc = "exchange" /\ fetch[c].conn = s

C15_Witness ==
    \E c, d \in Callers :
        /\ fetch[c].pc = "idle" /\ fetch[c].status = "raised" /\ fetch[c].got # 0
        /\ fetch[d].pc = "idle" /\ fetch[d].status = "returned"
        /\ \E i \in 1..Len(pool) : pool[i] = fetch[c].got

(* C16: a checkout creates a session only after its get found no idle
   session; it ends without a session only when that creation failed, and
   fetch_emails has then raised; a caller that has a session went on with
   it; and a checkout that has started is always resolved. *)
C16_CheckoutResolves ==
    /\ [](\A c \in Callers :
            /\ fetch[c].created # "no" => fetch[c].idle_seen = 0
            /\ fetch[c].pc = "exchange" => fetch[c].conn # 0
            /\ (fetch[c].pc = "idle" /\ fetch[c].status = "raised"
                  /\ fetch[c].got = 0) => fetch[c].created = "failed"
            /\ fetch[c].created = "failed" =>
                   /\ fetch[c].pc = "idle"
                   /\ fetch[c].status = "raised"
                   /\ fetch[c].got = 0)
    /\ \A c \in Callers : (fetch[c].pc = "get") ~> (fetch[c].pc # "get")

C16_Witness ==
    \E c, d \in Callers :
        /\ fetch[c].pc = "exchange" /\ fetch[c].created = "yes"
        /\ fetch[d].created = "failed"
        /\ \E e \in Callers : fetch[e].pc = "exchange" /\ fetch[e].created = "no"

----------------------------------------------------------------------------
(* C17: a call that is not a cleanup never uncovers an instant: what was
   covered when a store_emails call began is covered when it has ended, and
   so stays covered through any run of calls without a cleanup (each call
   begins in the state the one before it left). *)
C17_CoverageMonotone ==
    last.op # "cleanup" => CoveredSet(PreCover) \subseteq CoveredSet(Cover)

C17_Witness ==
    /\ last.op = "store" /\ last.batch # <<>>
    /\ Len(PreCover) >= 2
    /\ \A i \in 1..Len(PreCover) : ~SharesInstant(PreCover[i], last.range)
    /\ Len(Cover) = Len(PreCover) + 1
    /\ last.range.start < PreCover[1].start

(* C18: adding a range to the stored cover a second time changes no row:
   for the range just added by store_emails, and for every range added
   twice to the cover the store holds. *)
C18_AddIdempotent ==
    /\ (last.op = "store" /\ last.batch # <<>>) =>
           update_date_ranges(db.date_ranges, last.range) = db.date_ranges
    /\ \A I \in Intervals :
           LET once == update_date_ranges(db.date_ranges, I)
           IN  update_date_ranges(once, I) = once

C18_Witness ==
    /\ last.op = "store" /\ last.batch # <<>>
    /\ last.pre.date_ranges = db.date_ranges
    /\ Len(Cover) >= 2
    /\ \E j \in 1..Len(Cover) : Cover[j] = last.range

----------------------------------------------------------------------------
(* C19: after store_emails has upserted a record r, the emails table holds
   exactly one row with r's message_id, that row reads back as r, and
   search_emails with a pattern that matches r.from_address and a window
   that contains the instant of r.date returns r exactly once. *)
C19_UpsertKeyedRoundTrip ==
    (last.op = "store" /\ last.batch # <<>>) =>
        LET r == last.batch[Len(last.batch)]
            same == {k \in 1..Len(db.emails) :
                        db.emails[k].message_id = r.message_id}
        IN  /\ Cardinality(same) = 1
            /\ \A k \in same : RowEmail(db.emails[k]) = r
            /\ \A pattern \in Patterns, W \in Intervals :
                   (/\ Compiles(pattern)
                    /\ re_search(pattern, r.from_address)
                    /\ W.start <= r.date.instant
                    /\ r.date.instant <= W.end)
                   => LET res == search_emails(db.emails, pattern, W)
                      IN  Cardinality({j \in 1..Len(res) : res[j] = r}) = 1

(* C20: a search that returned holds exactly the stored records whose
   sender matches the pattern and whose date is an instant of the window
   [now - lookback, now], the lookback being one year when days_back is
   None, each record once, newest first. *)
C20_SearchResultExact ==
    (svc.pc = "done" /\ Compiles(svc.pattern)) =>
        LET now == svc.target.end
            lookback == IF svc.days_back = <<>> THEN YearDays ELSE svc.days_back[1]
            want == {k \in 1..Len(db.emails) :
                        /\ re_search(svc.pattern, db.emails[k].from_address)
                        /\ now - lookback <= parse(db.emails[k].date)
                        /\ parse(db.emails[k].date) <= now}
        IN  /\ Len(svc.result) = Cardinality(want)
            /\ \A k \in want :
                   \E j \in 1..Len(svc.result) : svc.result[j] = RowEmail(db.emails[k])
            /\ \A j, k \in 1..Len(svc.result) :
                   j < k => svc.result[j].date.instant >= svc.result[k].date.instant

----------------------------------------------------------------------------
(* C21: cleanup_old_data with cutoff c drops the ranges that end before c,
   raises to c the start of the ranges that start before c and end at or
   after it, keeps the others as they are, and deletes exactly the records
   whose date is an instant before c; afterwards every range has
   c <= start <= end and every record has a date at or after c. *)
C21_TrimOnePass ==
    last.op = "cleanup" =>
        LET c == last.cutoff
            kept == SelectSeq(PreCover, LAMBDA r : r.end >= c)
            trimmed == [i \in 1..Len(kept) |->
                          IF kept[i].start < c THEN DateRange(c, kept[i].end)
                          ELSE kept[i]]
        IN  /\ Cover = trimmed
            /\ db.emails = SelectSeq(last.pre.emails, LAMBDA x : parse(x.date) >= c)
            /\ \A i \in 1..Len(Cover) :
                   c <= Cover[i].start /\ Cover[i].start <= Cover[i].end
            /\ \A k \in 1..Len(db.emails) : parse(db.emails[k].date) >= c

----------------------------------------------------------------------------
(* C22: a gap whose fetch returned no records leaves the emails and
   date_ranges tables as the iteration found them (store_emails with an
   empty list changes nothing either), and find_missing_ranges for the same
   target still returns that gap, also after later gaps of the search have
   been stored. *)
C22_EmptyGapChangesNothing ==
    /\ svc.attempts # <<>> =>
           LET a == svc.attempts[Len(svc.attempts)]
           IN  a.outcome = "empty" =>
                   /\ db = svc.pre
                   /\ store_emails(db, a.batch, a.gap) = db
    /\ \A k \in 1..Len(svc.attempts) :
           svc.attempts[k].outcome = "empty" =>
               LET again == find_missing_ranges(db.date_ranges, svc.target)
               IN  \E j \in 1..Len(again) : again[j] = svc.attempts[k].gap

C22_Witness ==
    /\ svc.pc = "done"
    /\ \E j, k \in 1..Len(svc.attempts) :
           /\ j < k
           /\ svc.attempts[j].outcome = "empty"
           /\ svc.attempts[k].outcome = "stored"
    /\ db.date_ranges # <<>>

----------------------------------------------------------------------------
(* C23: at most one thread is inside a write method's locked section, and
   it holds the lock; the committed state has not changed since it took the
   lock, the merge it writes was computed from the committed cover, and
   what it is about to commit is its whole call applied to the committed
   state, so the commits are the calls run one after the other; and a
   get_cached_ranges read returns the committed cover, which during an add
   is the cover from before it. *)
C23_MutationsSerialized ==
    /\ [](\A t \in Threads :
            pc[t] \in InTxn =>
                /\ lock = t
                /\ \A u \in Threads : pc[u] \in InTxn => u = t
                /\ db = base[t]
                /\ (call[t].op = "store" /\ pc[t] \in {"delete", "insert", "commit"})
                       => merged[t] = MergedRanges(db.date_ranges, call[t].range)
                /\ (call[t].op = "store" /\ pc[t] = "commit")
                       => txn[t] = store_emails(db, call[t].batch, call[t].range)
                /\ (call[t].op = "cleanup" /\ pc[t] = "commit")
                       => txn[t] = cleanup_old_data(db, call[t].cutoff))
    /\ [][\A u \in Threads :
             (ret'[u] # ret[u] /\ ret'[u].status = "read") =>
                 /\ ret'[u].seen = get_cached_ranges(db.date_ranges)
                 /\ \A t \in Threads :
                        pc[t] \in InTxn =>
                            ret'[u].seen = get_cached_ranges(base[t].date_ranges)]_vars

C23_Witness ==
    \E t, u \in Threads :
        /\ t # u
        /\ pc[t] = "commit" /\ call[t].op = "store"
        /\ pc[u] = "lock" /\ call[u].op \in {"store", "cleanup"}
        /\ db.date_ranges # <<>>
        /\ txn[t].date_ranges # db.date_ranges
        /\ Len(merged[t]) >= 2

====
